---- MODULE Spec2Model ----
(***************************************************************************)
(* A model of the TAMS scraper (src/src/main.js): the start-up sequence,   *)
(* the connectivity check, the navigator, the login sequence, the report   *)
(* loop with the attendance month/year selection, the table parser and the *)
(* hand-off to persistence, with the browser session's life cycle.         *)
(*                                                                         *)
(* Texts are sequences of one-character strings, so that trimming,         *)
(* replacing, lower-casing and substring tests are computed, not assumed.  *)
(***************************************************************************)
EXTENDS Integers, Sequences, FiniteSets, TLC

VARIABLES
    pc,            \* position of the single thread of control
    exitCode,      \* -1 while the process runs, then the process exit code
    created,       \* the browser session was created
    quitCalls,     \* calls of driver.quit() issued
    quitDone,      \* calls of driver.quit() that completed
    env,           \* which of TAMS_BASE_URL, USERNAME, PASSWORD are set
    currentMonth,  \* new Date().getMonth() + 1
    currentYear,   \* new Date().getFullYear()
    quitCanFault,  \* whether a call of driver.quit() of this session can fault
    dom,           \* the portal the run meets: "any", or "e2e" for the fixed
                   \* attendance page of the end-to-end scenario
    probeLog,      \* outcomes of the axios probes made so far
    backoffs,      \* 1-second waits made by checkInternet
    connected,     \* checkInternet returned true
    navigated,     \* paths handed to driver.get, in order
    loginState,    \* state of the login sequence
    loginRuns,     \* times login() was entered
    urlIdx,        \* index in urlList of the report being processed
    increment,     \* attendance loop variable
    sel,           \* the month/year computed by the last attendance iteration
    tableData,     \* the current report's list of scraped lists
    yielded,       \* records the parser returned so far, for each report
    mainTableData, \* the aggregate: entries <<k: report, v: records>>
    persisted,     \* times the aggregate was handed to persistence
    noData,        \* the no-data condition was reported
    fatal,         \* the fatal condition that ended the run, "none" if none
    reportFault,   \* "recovered" once a report step failed and the loop went
                   \* on, "threw" once a fault reached the catch of main
    loginLog,      \* what login() did to the page, in order
    steps,         \* what the report loop did since its last iteration began
    normIn,        \* header text given to the normalization
    normOut,       \* successive results of normalizing normIn
    page,          \* the document given to the table parser
    parsed,        \* what the table parser returned for page
    navIn,         \* logical name given to the navigator
    navOut,        \* the path the navigator resolved navIn to
    locIn,         \* a call of the element locator: its arguments and what
                   \* the driver's wait and findElement answer
    locOut         \* what the element locator returned for locIn

runVars == <<pc, exitCode, created, quitCalls, quitDone, env, currentMonth,
             currentYear, quitCanFault, dom, probeLog, backoffs, connected, navigated,
             loginState, loginRuns, urlIdx, increment, sel, tableData, yielded,
             mainTableData, persisted, noData, fatal, reportFault,
             loginLog, steps>>
normVars == <<normIn, normOut>>
parserVars == <<page, parsed>>
navVars == <<navIn, navOut>>
locVars == <<locIn, locOut>>
fnVars == <<normVars, parserVars, navVars, locVars>>
vars == <<runVars, fnVars>>

(***************************************************************************)
(* Bounds of the model.                                                    *)
(***************************************************************************)
MaxLen == 4      \* longest header text given to the normalization
MaxCols == 2     \* most header cells, and most cells of a row, of a table
MaxRows == 2     \* most body rows of a table

(***************************************************************************)
(* Texts.                                                                  *)
(***************************************************************************)
SP == " "
NL == "\n"
TAB == "\t"
US == "_"

\* String.prototype.trim removes white space at both ends.
WhiteSpace == {SP, NL, TAB}

RECURSIVE TrimStart(_)
TrimStart(s) ==
    IF s # <<>> /\ Head(s) \in WhiteSpace THEN TrimStart(Tail(s)) ELSE s

RECURSIVE TrimEnd(_)
TrimEnd(s) ==
    IF s # <<>> /\ s[Len(s)] \in WhiteSpace
    THEN TrimEnd(SubSeq(s, 1, Len(s) - 1))
    ELSE s

Trim(s) == TrimEnd(TrimStart(s))

\* String.prototype.replace with a global one-character pattern.
ReplaceAll(s, from, to) ==
    [i \in 1..Len(s) |-> IF s[i] = from THEN to ELSE s[i]]

UpperCase == <<"A", "B", "C", "D", "E", "F", "G", "H", "I", "J", "K", "L", "M",
               "N", "O", "P", "Q", "R", "S", "T", "U", "V", "W", "X", "Y", "Z">>
LowerCase == <<"a", "b", "c", "d", "e", "f", "g", "h", "i", "j", "k", "l", "m",
               "n", "o", "p", "q", "r", "s", "t", "u", "v", "w", "x", "y", "z">>

LowerOf ==
    [c \in {UpperCase[i] : i \in 1..Len(UpperCase)} |->
        LowerCase[CHOOSE i \in 1..Len(UpperCase) : UpperCase[i] = c]]

LowerChar(c) == IF c \in DOMAIN LowerOf THEN LowerOf[c] ELSE c

ToLowerCase(s) == [i \in 1..Len(s) |-> LowerChar(s[i])]

\* String.prototype.includes
Includes(s, sub) ==
    \E i \in 0..(Len(s) - Len(sub)) :
        \A j \in 1..Len(sub) : s[i + j] = sub[j]

\* main.js:179: text.trim().replace(/\n/g, ' ').replace(/ /g, '_').toLowerCase()
NormalizeSwapped(text) ==
    ToLowerCase(ReplaceAll(ReplaceAll(Trim(text), SP, US), NL, SP))

NormalizeHeader(text) ==
    ToLowerCase(ReplaceAll(ReplaceAll(Trim(text), NL, SP), SP, US))

ACTION_KW == <<"a", "c", "t", "i", "o", "n">>
ATTACHMENT_KW == <<"a", "t", "t", "a", "c", "h", "m", "e", "n", "t">>

\* main.js:200: header.includes('action') || header.includes('attachment')
ExcludedAttachmentOnly(header) == Includes(header, ATTACHMENT_KW)

ExcludedActionOnly(header) == Includes(header, ACTION_KW)

Excluded(header) ==
    Includes(header, ACTION_KW) \/ Includes(header, ATTACHMENT_KW)

(***************************************************************************)
(* The document the table parser reads.  A page says which of the table,   *)
(* its thead and its tbody are located within the timeout, whether the     *)
(* header cells stand in a tr of the thead, the texts of the th elements,  *)
(* how many td cells each body row has, and where getText faults.          *)
(***************************************************************************)
DigitChar(n) ==
    CASE n = 0 -> "0" [] n = 1 -> "1" [] n = 2 -> "2" [] n = 3 -> "3"
      [] n = 4 -> "4" [] n = 5 -> "5" [] n = 6 -> "6" [] n = 7 -> "7"
      [] n = 8 -> "8" [] OTHER -> "9"

\* The text of the c-th cell of the r-th body row, as the browser gives it:
\* padded, and different for every cell of the document.
CellText(r, c) == <<SP, "r", DigitChar(r), "c", DigitChar(c), NL>>

H_DATE == <<"D", "a", "t", "e">>
H_TIME_IN == <<SP, "T", "i", "m", "e", SP, "I", "n", SP, NL>>
H_ACTION == <<"A", "c", "t", "i", "o", "n">>
H_ATTACHMENT == <<"M", "y", NL, "A", "T", "T", "a", "c", "h", "m", "e", "n", "t">>
HeaderPool == {H_DATE, H_TIME_IN, H_ACTION, H_ATTACHMENT}

SeqsUpTo(S, n) == UNION {[1..k -> S] : k \in 0..n}

Located == {"noTable", "noThead", "noTbody", "all"}
Faults == {"none", "th", "td"}

\* A page whose body rows hold the given cell texts.
PageWith(loc, headTr, ths, rows, fault) ==
    [located |-> loc, headTr |-> headTr, ths |-> ths,
     rowLens |-> [r \in 1..Len(rows) |-> Len(rows[r])],
     rows |-> rows, fault |-> fault]

PageOf(loc, headTr, ths, rowLens, fault) ==
    PageWith(loc, headTr, ths,
             [r \in 1..Len(rowLens) |->
                 [c \in 1..rowLens[r] |-> CellText(r, c)]],
             fault)

Pages ==
    {PageOf(loc, headTr, ths, rowLens, fault) :
        loc \in Located, headTr \in BOOLEAN,
        ths \in SeqsUpTo(HeaderPool, MaxCols),
        rowLens \in SeqsUpTo(0..MaxCols, MaxRows),
        fault \in Faults}

\* The td texts of body row r.
RowCells(p, r) == p.rows[r]

RECURSIVE Concat(_)
Concat(ss) == IF ss = <<>> THEN <<>> ELSE Head(ss) \o Concat(Tail(ss))

\* Elements of the whole document by tag name, in DOM order.  A tr is given
\* by its own td texts; the tr of the thead holds th elements and no td.
DocTables(p) == IF p.located # "noTable" THEN <<"table">> ELSE <<>>
DocTheads(p) == IF p.located \in {"noTbody", "all"} THEN <<"thead">> ELSE <<>>
DocTbodies(p) == IF p.located = "all" THEN <<"tbody">> ELSE <<>>
DocThs(p) == p.ths
BodyTrs(p) == [r \in 1..Len(p.rowLens) |-> RowCells(p, r)]
DocTrs(p) == (IF p.headTr THEN << <<>> >> ELSE <<>>) \o BodyTrs(p)
DocTds(p) == Concat(BodyTrs(p))

(***************************************************************************)
(* processElement (main.js:119-152).  inParent are the matching elements   *)
(* under the parent scope and inDocument those of the whole document.      *)
(* With multiple set the wait on the document is what is returned; for a   *)
(* single element the wait on the document is followed by findElement on   *)
(* the parent.  A timeout, a not-found and any other fault give null.      *)
(***************************************************************************)
Null == [found |-> FALSE, elems |-> <<>>, raised |-> FALSE]
Some(es) == [found |-> TRUE, elems |-> es, raised |-> FALSE]

\* A fault that leaves processElement and reaches its caller.
Raised == [found |-> FALSE, elems |-> <<>>, raised |-> TRUE]

\* What driver.wait and findElement answer: elements, or a fault by name.
Answer(es) == [error |-> "none", elems |-> es]
Fault(name) == [error |-> name, elems |-> <<>>]

\* main.js:141-151: the catch of processElement
OnLookupFaultRethrows(name) ==
    IF name = "TimeoutError" THEN Null
    ELSE IF name = "NoSuchElementError" THEN Null
    ELSE Raised

OnLookupFault(name) ==
    IF name = "TimeoutError" THEN Null
    ELSE IF name = "NoSuchElementError" THEN Null
    ELSE Null

\* main.js:119-152, given whether a locator value was passed, what the wait
\* on the document answers and what findElement on the parent answers
ProcessElementOn(hasLocator, multiple, waited, found) ==
    IF ~hasLocator THEN Null
    ELSE IF waited.error # "none" THEN OnLookupFault(waited.error)
    ELSE IF multiple THEN Some(waited.elems)
    ELSE IF found.error # "none" THEN OnLookupFault(found.error)
    ELSE Some(found.elems)

\* The driver on a document: the wait times out when nothing matches in the
\* document, and findElement faults when nothing matches under the parent.
WaitFor(inDocument) ==
    IF inDocument # <<>> THEN Answer(inDocument) ELSE Fault("TimeoutError")

FindIn(inParent) ==
    IF inParent # <<>> THEN Answer(<<Head(inParent)>>)
    ELSE Fault("NoSuchElementError")

ProcessElement(inParent, inDocument, multiple) ==
    ProcessElementOn(TRUE, multiple, WaitFor(inDocument), FindIn(inParent))

(***************************************************************************)
(* scrapeTableData (main.js:155-210).  A record is the sequence of its     *)
(* entries [k, v] in insertion order, as a JavaScript object keeps them.   *)
(***************************************************************************)
HasKey(rec, k) == \E i \in 1..Len(rec) : rec[i].k = k
Keys(rec) == {rec[i].k : i \in 1..Len(rec)}
Get(rec, k) == LET i == CHOOSE i \in 1..Len(rec) : rec[i].k = k IN rec[i].v

\* rowData[header] = cellText
Assign(rec, k, v) ==
    IF HasKey(rec, k)
    THEN [i \in 1..Len(rec) |-> IF rec[i].k = k THEN [k |-> k, v |-> v] ELSE rec[i]]
    ELSE Append(rec, [k |-> k, v |-> v])

\* main.js:202-203: cells[i] and its trimmed text, '' when there is no cell
CellValue(cells, i) == IF i <= Len(cells) THEN Trim(cells[i]) ELSE <<>>

\* main.js:198-205: the loop over the headers, from header i on
RECURSIVE FillRowSkipMissing(_, _, _, _)
FillRowSkipMissing(headers, cells, i, rowData) ==
    IF i > Len(headers) THEN rowData
    ELSE IF Excluded(headers[i]) \/ i > Len(cells)
         THEN FillRowSkipMissing(headers, cells, i + 1, rowData)
         ELSE FillRowSkipMissing(headers, cells, i + 1,
                                 Assign(rowData, headers[i], CellValue(cells, i)))

RECURSIVE FillRow(_, _, _, _)
FillRow(headers, cells, i, rowData) ==
    IF i > Len(headers) THEN rowData
    ELSE IF Excluded(headers[i])
         THEN FillRow(headers, cells, i + 1, rowData)
         ELSE FillRow(headers, cells, i + 1,
                      Assign(rowData, headers[i], CellValue(cells, i)))

\* main.js:193-207: the loop over the rows, from row k on
RECURSIVE ScrapeRows(_, _, _, _, _)
ScrapeRows(p, headers, rows, k, acc) ==
    IF k > Len(rows) THEN acc
    ELSE LET cells == ProcessElement(rows[k], DocTds(p), TRUE)
         IN  IF ~cells.found
             THEN ScrapeRows(p, headers, rows, k + 1, acc)
             ELSE ScrapeRows(p, headers, rows, k + 1,
                             Append(acc, FillRow(headers, cells.elems, 1, <<>>)))

\* Whether the row loop calls getText on some cell.
ReadsCell(p, headers, rows) ==
    \E k \in 1..Len(rows) :
        LET cells == ProcessElement(rows[k], DocTds(p), TRUE)
        IN  /\ cells.found
            /\ \E i \in 1..Len(headers) :
                   ~Excluded(headers[i]) /\ i <= Len(cells.elems)

Returned(data) == [threw |-> FALSE, data |-> data]
Threw == [threw |-> TRUE, data |-> <<>>]

ScrapeTableData(p) ==
    LET table == ProcessElement(DocTables(p), DocTables(p), FALSE)
        header == ProcessElement(DocTheads(p), DocTheads(p), FALSE)
        headerElems == ProcessElement(DocThs(p), DocThs(p), TRUE)
        headers == [i \in 1..Len(headerElems.elems) |->
                        NormalizeHeader(headerElems.elems[i])]
        tbody == ProcessElement(DocTbodies(p), DocTbodies(p), FALSE)
        rows == ProcessElement(BodyTrs(p), DocTrs(p), TRUE)
    IN  IF ~table.found THEN Returned(<<>>)
        ELSE IF ~header.found THEN Returned(<<>>)
        ELSE IF ~headerElems.found THEN Returned(<<>>)
        ELSE IF p.fault = "th" THEN Threw
        ELSE IF ~tbody.found THEN Returned(<<>>)
        ELSE IF ~rows.found THEN Returned(<<>>)
        ELSE IF p.fault = "td" /\ ReadsCell(p, headers, rows.elems) THEN Threw
        ELSE Returned(ScrapeRows(p, headers, rows.elems, 1, <<>>))

(***************************************************************************)
(* The run: the start-up code and main (main.js:27-41, 273-415).           *)
(***************************************************************************)
BaseYear == 2024
Years == {BaseYear}

Retries4 == 3 + 1

\* main.js:59: retries = 3
Retries == 3

\* An axios answer: a response with its status, or a rejection with its
\* code.  axios resolves the statuses 200..299 and rejects the others.
Response(status) == [status |-> status, code |-> "none"]
Rejection(code) == [status |-> 0, code |-> code]
ProbeOutcomes == {Response(200), Response(204), Rejection("ECONNABORTED")}

\* main.js:63: response.status === 200
ProbeSucceededAny2xx(o) == o.status \in 200..299

ProbeSucceeded(o) == o.status = 200

\* The remainder operator of JavaScript: the sign of the dividend.
JsRem(a, n) == IF a >= 0 THEN a % n ELSE -((-a) % n)

\* main.js:292-295
months == <<"January", "February", "March", "April", "May", "June", "July",
            "August", "September", "October", "November", "December">>

\* main.js:301
AdjustedMonth(month, inc) == JsRem(month + inc - 1, 12) + 1

\* main.js:302-309
AdjustedYear(month, year, inc) ==
    LET adjustedMonth == AdjustedMonth(month, inc)
    IN  IF adjustedMonth = 12 /\ inc = -1 THEN year - 1
        ELSE IF adjustedMonth = 1 /\ inc = 1 THEN year + 1
        ELSE year

\* main.js:311: months[adjustedMonth - 1], undefined outside the array
SelectedMonth(month, inc) ==
    LET adjustedMonth == AdjustedMonth(month, inc)
    IN  IF adjustedMonth \in 1..12 THEN months[adjustedMonth] ELSE "undefined"

Selection(month, year, inc) ==
    [increment |-> inc,
     month |-> AdjustedMonth(month, inc),
     name |-> SelectedMonth(month, inc),
     year |-> AdjustedYear(month, year, inc)]

NoSelection == [increment |-> 0, month |-> 0, name |-> "none", year |-> 0]

\* main.js:281, 284: the logical names
U_AUTH == <<"A", "u", "t", "h">>
U_ATTENDANCE == <<"a", "t", "t", "e", "n", "d", "a", "n", "c", "e">>
U_OVERTIME == <<"o", "v", "e", "r", "t", "i", "m", "e">>
U_OFFICIALBUSINESS == <<"o", "f", "f", "i", "c", "i", "a", "l",
                        "b", "u", "s", "i", "n", "e", "s", "s">>
U_LEAVE == <<"l", "e", "a", "v", "e">>
\* main.js:284
urlListLeaveFirst == <<U_LEAVE, U_ATTENDANCE, U_OVERTIME, U_OFFICIALBUSINESS>>

urlList == <<U_ATTENDANCE, U_OVERTIME, U_OFFICIALBUSINESS, U_LEAVE>>

FILING == <<"f", "i", "l", "i", "n", "g", "/">>

\* main.js:89-94: the path joined to the base URL
FullUrlCaseSensitive(url) ==
    IF \E keyword \in {U_OVERTIME, U_OFFICIALBUSINESS, U_LEAVE} :
           Includes(url, keyword)
    THEN FILING \o url
    ELSE url

FullUrl(url) ==
    IF \E keyword \in {U_OVERTIME, U_OFFICIALBUSINESS, U_LEAVE} :
           Includes(ToLowerCase(url), keyword)
    THEN FILING \o url
    ELSE url

\* main.js:291
IsAttendance(url) == Includes(ToLowerCase(url), U_ATTENDANCE)

(***************************************************************************)
(* The pages the run meets: each report has its table header, and a page   *)
(* load gives some body rows.                                              *)
(***************************************************************************)
ReportThs(url) ==
    IF url = U_ATTENDANCE THEN <<H_DATE, H_TIME_IN, H_ACTION>>
    ELSE IF url = U_OVERTIME THEN <<H_DATE, H_ATTACHMENT>>
    ELSE IF url = U_OFFICIALBUSINESS THEN <<H_TIME_IN>>
    ELSE <<H_DATE, H_DATE>>

RunRowLens == {<<>>, <<1, 0>>}

\* The attendance page of the end-to-end scenario: the headers Date, Time In
\* and Action and one row, the header cells in a tr of their own or not.
E2EPages ==
    {PageWith("all", headTr,
              <<H_DATE, <<"T", "i", "m", "e", SP, "I", "n">>, H_ACTION>>,
              << <<(<<"2", "0", "2", "4", "-", "0", "1", "-", "0", "5">>),
                   (<<"0", "8", ":", "0", "0">>),
                   (<<"<", "b", "u", "t", "t", "o", "n", ">">>)>> >>,
              "none") : headTr \in BOOLEAN}

\* Pages with everything located and no fault, pages with one element not
\* located, and pages where reading a text faults.
RunPages(url) ==
    IF dom = "e2e" /\ url = U_ATTENDANCE THEN E2EPages ELSE
    {PageOf("all", TRUE, ReportThs(url), rowLens, "none") :
        rowLens \in RunRowLens}
    \cup {PageOf(loc, TRUE, ReportThs(url), <<1, 0>>, "none") :
            loc \in Located \ {"all"}}
    \cup {PageOf("all", TRUE, ReportThs(url), <<1, 0>>, fault) :
            fault \in Faults \ {"none"}}

IdlePage == PageOf("noTable", FALSE, <<>>, <<>>, "none")
NotParsed == [done |-> FALSE, threw |-> FALSE, data |-> <<>>]

NotResolved == [done |-> FALSE, path |-> <<>>]

NormIdle == normIn = <<>> /\ normOut = <<>>
ParserIdle == page = IdlePage /\ parsed = NotParsed
NavIdle == navIn = <<>> /\ navOut = NotResolved

NoCall == [hasLocator |-> FALSE, multiple |-> FALSE,
           waited |-> Fault("TimeoutError"), found |-> Fault("TimeoutError")]
NotLocated == [done |-> FALSE, result |-> Null]
LocIdle == locIn = NoCall /\ locOut = NotLocated

InitFn ==
    /\ NormIdle
    /\ ParserIdle
    /\ NavIdle
    /\ LocIdle

InitRun ==
    /\ pc = "start"
    /\ exitCode = -1
    /\ created = FALSE
    /\ quitCalls = 0
    /\ quitDone = 0
    /\ probeLog = <<>>
    /\ backoffs = 0
    /\ connected = FALSE
    /\ navigated = <<>>
    /\ loginState = "NotStarted"
    /\ loginRuns = 0
    /\ loginLog = <<>>
    /\ urlIdx = 0
    /\ increment = -1
    /\ sel = NoSelection
    /\ steps = <<>>
    /\ tableData = <<>>
    /\ yielded = [i \in 1..Len(urlList) |-> 0]
    /\ mainTableData = <<>>
    /\ persisted = 0
    /\ noData = FALSE
    /\ fatal = "none"
    /\ reportFault = "none"

Init ==
    /\ InitRun
    /\ InitFn
    /\ env \in [baseUrl : BOOLEAN, username : BOOLEAN, password : BOOLEAN]
    /\ currentMonth \in 1..12
    /\ currentYear \in Years
    /\ dom = "any"
    /\ quitCanFault = FALSE

\* await driver.quit()
AwaitQuit == quitCalls' = quitCalls + 1 /\ quitDone' = quitDone + 1

\* driver.quit() without await, directly followed by process.exit
CallQuit == quitCalls' = quitCalls + 1 /\ quitDone' = quitDone

\* process.exit(code), or the end of the process after main
ProcessExit(code) == exitCode' = code /\ pc' = "exited"

\* Whether a call of driver.quit() completes.
QuitOutcomes == IF quitCanFault THEN BOOLEAN ELSE {TRUE}

\* n awaited calls of driver.quit(), the last of which completes or not
QuitCalled(n, completed) ==
    /\ quitCalls' = quitCalls + n
    /\ quitDone' = IF completed THEN quitDone + 1 ELSE quitDone

\* main.js:424: main() is called and not awaited, and the start-up function
\* (27-424) has no catch either, so a fault that leaves them is an unhandled
\* rejection, which ends the process with the code the runtime gives it.
Unhandled == \E code \in {0, 1} : ProcessExit(code)

\* await driver.quit(); process.exit(1); inside the try of main: a fault of
\* quit skips the exit and is caught at main.js:410
Fatal(cause) ==
    /\ fatal' = cause
    /\ \E completed \in QuitOutcomes :
           IF completed
           THEN AwaitQuit /\ ProcessExit(1)
           ELSE QuitCalled(1, FALSE) /\ pc' = "finally" /\ exitCode' = exitCode

\* main.js:36-41: the same outside main, where nothing catches
FatalAtStart(cause) ==
    /\ fatal' = cause
    /\ \E completed \in QuitOutcomes :
           IF completed
           THEN AwaitQuit /\ ProcessExit(1)
           ELSE QuitCalled(1, FALSE) /\ Unhandled

inputVars == <<env, currentMonth, currentYear, quitCanFault, dom>>
connVars == <<probeLog, backoffs, connected>>
loginVars == <<loginState, loginRuns, loginLog>>
reportVars == <<urlIdx, increment, sel, steps, tableData, yielded,
                mainTableData, reportFault>>
outVars == <<persisted, noData>>

\* Control goes on to the next step; the session stays open.
Continue(next) ==
    pc' = next /\ UNCHANGED <<quitCalls, quitDone, exitCode, fatal>>

\* main.js:98-102: driver.get faulted
NavigationFaultThrown ==
    /\ fatal' = "navigation"
    /\ pc' = "finally"
    /\ UNCHANGED <<quitCalls, quitDone, exitCode>>

NavigationFault == Fatal("navigation")

\* main.js:28-34
CreateSession ==
    /\ pc = "start"
    /\ \E ok \in BOOLEAN :
           IF ok
           THEN created' = TRUE /\ Continue("baseUrl")
           ELSE /\ created' = FALSE
                /\ fatal' = "session"
                /\ UNCHANGED <<quitCalls, quitDone>>
                /\ ProcessExit(1)
    /\ UNCHANGED <<inputVars, connVars, navigated, loginVars, reportVars,
                   outVars, fnVars>>

\* main.js:36-41
CheckBaseUrl ==
    /\ pc = "baseUrl"
    /\ IF env.baseUrl THEN Continue("checkInternet")
       ELSE FatalAtStart("baseUrl")
    /\ UNCHANGED <<created, inputVars, connVars, navigated, loginVars,
                   reportVars, outVars, fnVars>>

\* main.js:59-85, 275: one attempt of checkInternet, with the wait or the
\* fatal exit that follows a failed one
ProbeAttempt ==
    /\ pc = "checkInternet"
    /\ Len(probeLog) < Retries
    /\ \E o \in ProbeOutcomes :
           LET attempt == Len(probeLog) + 1
           IN  /\ probeLog' = Append(probeLog, o)
               /\ IF ProbeSucceeded(o)
                  THEN /\ connected' = TRUE
                       /\ backoffs' = backoffs
                       /\ Continue("navigateAuth")
                  ELSE IF attempt < Retries
                  THEN /\ backoffs' = backoffs + 1
                       /\ connected' = connected
                       /\ Continue("checkInternet")
                  ELSE /\ UNCHANGED <<backoffs, connected>>
                       /\ Fatal("connectivity")
    /\ UNCHANGED <<created, inputVars, navigated, loginVars, reportVars,
                   outVars, fnVars>>

\* main.js:281, 88-103
NavigateAuth ==
    /\ pc = "navigateAuth"
    /\ navigated' = Append(navigated, FullUrl(U_AUTH))
    /\ \E ok \in BOOLEAN : IF ok THEN Continue("login") ELSE NavigationFault
    /\ UNCHANGED <<created, inputVars, connVars, loginVars, reportVars,
                   outVars, fnVars>>

(***************************************************************************)
(* login (main.js:213-270), one action for each transition.                *)
(***************************************************************************)
FieldOutcomes == {"absent", "clearFault", "typeFault", "ok"}

\* main.js:225-242: one round of the loop over username and password
FieldRoundNoEnvCheck(st, name, isSet, outcome) ==
    IF ~st.ok THEN st
    ELSE IF outcome = "absent" THEN [ok |-> FALSE, log |-> st.log]
    ELSE IF outcome = "clearFault"
         THEN [ok |-> FALSE, log |-> Append(st.log, <<"input", name>>)]
    ELSE IF outcome = "typeFault"
         THEN [ok |-> FALSE,
               log |-> st.log \o <<(<<"input", name>>), (<<"clear", name>>)>>]
    ELSE [ok |-> TRUE,
          log |-> st.log \o <<(<<"input", name>>), (<<"clear", name>>),
                              (<<"sendKeys", name>>)>>]

FieldRound(st, name, isSet, outcome) ==
    IF ~st.ok THEN st
    ELSE IF ~isSet THEN [ok |-> FALSE, log |-> st.log]
    ELSE IF outcome = "absent" THEN [ok |-> FALSE, log |-> st.log]
    ELSE IF outcome = "clearFault"
         THEN [ok |-> FALSE, log |-> Append(st.log, <<"input", name>>)]
    ELSE IF outcome = "typeFault"
         THEN [ok |-> FALSE,
               log |-> st.log \o <<(<<"input", name>>), (<<"clear", name>>)>>]
    ELSE [ok |-> TRUE,
          log |-> st.log \o <<(<<"input", name>>), (<<"clear", name>>),
                              (<<"sendKeys", name>>)>>]

\* The login failed: nothing follows but the teardown and the exit.
LoginFailedReturns(tested) ==
    loginState' = "Failed" /\ Continue("navigateReport")

\* tested: the failure is one login tests for and answers with quit and
\* exit (main.js:217-221, 227-231, 234-238, 259-263); a fault of that quit
\* is thrown to the catch of login (265-269), which calls quit again.
\* Otherwise the failure is a fault thrown to that catch.  A fault of the
\* quit of the catch leaves login and is caught by main.
LoginFailed(tested) ==
    /\ loginState' = "Failed"
    /\ fatal' = "login"
    /\ \E first \in QuitOutcomes, second \in QuitOutcomes :
           IF first
           THEN AwaitQuit /\ ProcessExit(1)
           ELSE IF ~tested
           THEN QuitCalled(1, FALSE) /\ pc' = "finally" /\ exitCode' = exitCode
           ELSE IF second
           THEN QuitCalled(2, TRUE) /\ ProcessExit(1)
           ELSE QuitCalled(2, FALSE) /\ pc' = "finally" /\ exitCode' = exitCode

\* main.js:226-238: the round ends on one of its two tests
FieldTested(isSet, outcome) == ~isSet \/ outcome = "absent"

\* main.js:214-242
LoginEnterCredentials ==
    /\ pc = "login"
    /\ loginRuns' = loginRuns + 1
    /\ \E formFound \in BOOLEAN, u \in FieldOutcomes, p \in FieldOutcomes :
           IF ~formFound
           THEN loginLog' = loginLog /\ LoginFailed(TRUE)
           ELSE LET s0 == [ok |-> TRUE, log |-> Append(loginLog, <<"form">>)]
                    s1 == FieldRound(s0, "username", env.username, u)
                    s2 == FieldRound(s1, "password", env.password, p)
                IN  /\ loginLog' = s2.log
                    /\ IF s2.ok
                       THEN /\ loginState' = "CredentialsEntered"
                            /\ Continue("loginSubmit")
                       ELSE LoginFailed(IF ~s1.ok
                                        THEN FieldTested(env.username, u)
                                        ELSE FieldTested(env.password, p))
    /\ UNCHANGED <<created, inputVars, connVars, navigated, reportVars,
                   outVars, fnVars>>

\* main.js:244-254: the submit button is clicked if it is found; the form's
\* own submit is called if the button is not found or its click faults
SubmitFormAlso(log, button, submitOk) ==
    LET tried == IF button = "clickFault" THEN Append(log, <<"clickFault">>)
                 ELSE IF button = "ok" THEN Append(log, <<"click">>)
                 ELSE log
    IN  IF submitOk
        THEN [ok |-> TRUE, log |-> Append(tried, <<"submit">>)]
        ELSE [ok |-> FALSE, log |-> Append(tried, <<"submitFault">>)]

SubmitForm(log, button, submitOk) ==
    LET tried == IF button = "clickFault" THEN Append(log, <<"clickFault">>)
                 ELSE log
    IN  IF button = "ok"
        THEN [ok |-> TRUE, log |-> Append(log, <<"click">>)]
        ELSE IF submitOk
        THEN [ok |-> TRUE, log |-> Append(tried, <<"submit">>)]
        ELSE [ok |-> FALSE, log |-> Append(tried, <<"submitFault">>)]

\* main.js:244-254, 265-269
LoginSubmit ==
    /\ pc = "loginSubmit"
    /\ \E button \in {"absent", "clickFault", "ok"}, submitOk \in BOOLEAN :
           LET r == SubmitForm(loginLog, button, submitOk)
           IN  /\ loginLog' = r.log
               /\ IF r.ok
                  THEN loginState' = "Submitted" /\ Continue("loginVerify")
                  ELSE LoginFailed(FALSE)
    /\ UNCHANGED <<created, inputVars, connVars, navigated, loginRuns,
                   reportVars, outVars, fnVars>>

\* main.js:256-264, and the first turn of the loop of main.js:287
LoginVerify ==
    /\ pc = "loginVerify"
    /\ \E marker \in BOOLEAN :
           IF marker
           THEN /\ loginState' = "Verified"
                /\ urlIdx' = 1
                /\ Continue("navigateReport")
           ELSE /\ urlIdx' = urlIdx
                /\ LoginFailed(TRUE)
    /\ loginLog' = Append(loginLog, <<"marker">>)
    /\ UNCHANGED <<created, inputVars, connVars, navigated, loginRuns,
                   increment, sel, steps, tableData, yielded, mainTableData,
                   reportFault, outVars, fnVars>>

(***************************************************************************)
(* The report loop (main.js:287-394).                                      *)
(***************************************************************************)
\* main.js:288-289, 88-103
NavigateReport ==
    /\ pc = "navigateReport"
    /\ urlIdx \in 1..Len(urlList)
    /\ navigated' = Append(navigated, FullUrl(urlList[urlIdx]))
    /\ \E ok \in BOOLEAN :
           IF ok
           THEN /\ tableData' = <<>>
                /\ steps' = <<>>
                /\ increment' = -1
                /\ Continue(IF IsAttendance(urlList[urlIdx])
                            THEN "attendance" ELSE "scrape")
           ELSE /\ UNCHANGED <<tableData, steps, increment>>
                /\ NavigationFault
    /\ UNCHANGED <<created, inputVars, connVars, loginVars, urlIdx, sel,
                   yielded, mainTableData, reportFault, outVars,
                   fnVars>>

\* main.js:374-376, 383-385
Pushed(td, scrapedData) ==
    IF Len(scrapedData) > 0 THEN Append(td, scrapedData) ELSE td

\* main.js:388-393: tableData.flat() stored under the report's name
StoredAlways(agg, url, td) == Assign(agg, url, Concat(td))

Stored(agg, url, td) ==
    IF Len(td) > 0 THEN Assign(agg, url, Concat(td)) ELSE agg

\* main.js:388-394: the end of a turn of the loop over urlList
EndOfReportBreaks(td) ==
    /\ mainTableData' = Stored(mainTableData, urlList[urlIdx], td)
    /\ tableData' = td
    /\ IF urlIdx < Len(urlList) /\ Len(td) > 0
       THEN urlIdx' = urlIdx + 1 /\ Continue("navigateReport")
       ELSE urlIdx' = urlIdx /\ Continue("persist")

EndOfReport(td) ==
    /\ mainTableData' = Stored(mainTableData, urlList[urlIdx], td)
    /\ tableData' = td
    /\ IF urlIdx < Len(urlList)
       THEN urlIdx' = urlIdx + 1 /\ Continue("navigateReport")
       ELSE urlIdx' = urlIdx /\ Continue("persist")

\* The count of the records the parser returned for the current report.
Yielded(scrapedData) ==
    [yielded EXCEPT ![urlIdx] = @ + Len(scrapedData)]

\* main.js:410-411: a fault thrown inside main is caught and printed
Caught ==
    /\ reportFault' = "threw"
    /\ Continue("finally")
    /\ UNCHANGED <<urlIdx, tableData, yielded, mainTableData>>

\* A step of a report failed, or the parser returned nothing: the condition
\* is printed and the loop goes on (main.js:157-192, 313-379).
Recovered(failed) == IF failed THEN "recovered" ELSE reportFault

\* What one attendance iteration does to the page when nothing fails.
FullSteps == <<"month.click", "option.click", "year.clear", "year.sendKeys",
               "search.click", "sleep", "scrape">>

Min(a, b) == IF a < b THEN a ELSE b

\* How far an iteration gets: main.js:314-379.
Progress(outcome) ==
    CASE outcome = "noControls" -> 0
      [] outcome = "monthClickFault" -> 0
      [] outcome = "noOption" -> 1
      [] outcome = "optionClickFault" -> 1
      [] outcome = "yearClearFault" -> 2
      [] outcome = "yearSendKeysFault" -> 3
      [] outcome = "noSearch" -> 4
      [] outcome = "searchClickFault" -> 4
      [] outcome = "sleepFault" -> 5
      [] OTHER -> 7

\* main.js:373: the parser is called once the Search control was clicked
InvokesParserWithoutSearch(outcome) == outcome \in {"searched", "noSearch"}

InvokesParser(outcome) == outcome = "searched"

OffsetOutcomes == {"noControls", "monthClickFault", "noOption",
                   "optionClickFault", "yearClearFault", "yearSendKeysFault",
                   "noSearch", "searchClickFault", "sleepFault", "searched"}

\* The month select of the page offers the twelve month names.
OptionInDom(name) == \E m \in 1..12 : months[m] = name

\* In the end-to-end scenario every control is present and works.
E2EOutcomes(name) == IF OptionInDom(name) THEN {"searched"} ELSE {"noOption"}

\* main.js:300-380: one iteration of the loop over the offsets, and after
\* the last one the end of the turn (main.js:388-394)
AttendanceOffset ==
    /\ pc = "attendance"
    /\ increment \in -1..1
    /\ LET s == Selection(currentMonth, currentYear, increment)
       IN  /\ sel' = s
           /\ \E outcome \in IF dom = "e2e" THEN E2EOutcomes(s.name)
                             ELSE OffsetOutcomes :
                  /\ Progress(outcome) >= 2 => OptionInDom(s.name)
                  /\ steps' = IF InvokesParser(outcome)
                               THEN Append(SubSeq(FullSteps, 1,
                                                  Min(Progress(outcome), 6)),
                                           "scrape")
                               ELSE SubSeq(FullSteps, 1,
                                           Min(Progress(outcome), 6))
                  /\ \E r \in IF InvokesParser(outcome)
                              THEN {ScrapeTableData(p) :
                                       p \in RunPages(urlList[urlIdx])}
                              ELSE {Returned(<<>>)} :
                         LET td == Pushed(tableData, r.data)
                         IN  IF r.threw
                             THEN increment' = increment /\ Caught
                             ELSE IF increment < 1
                             THEN /\ increment' = increment + 1
                                  /\ tableData' = td
                                  /\ yielded' = Yielded(r.data)
                                  /\ reportFault' = Recovered(r.data = <<>>)
                                  /\ Continue("attendance")
                                  /\ UNCHANGED <<urlIdx, mainTableData>>
                             ELSE /\ increment' = increment + 1
                                  /\ yielded' = Yielded(r.data)
                                  /\ reportFault' = Recovered(r.data = <<>>)
                                  /\ EndOfReport(td)
    /\ UNCHANGED <<created, inputVars, connVars, navigated, loginVars,
                   outVars, fnVars>>

\* main.js:381-394: the single pass of a report other than attendance
ScrapeOther ==
    /\ pc = "scrape"
    /\ steps' = <<"scrape">>
    /\ \E p \in RunPages(urlList[urlIdx]) :
           LET r == ScrapeTableData(p)
           IN  IF r.threw
               THEN Caught
               ELSE /\ reportFault' = Recovered(r.data = <<>>)
                    /\ yielded' = Yielded(r.data)
                    /\ EndOfReport(Pushed(tableData, r.data))
    /\ UNCHANGED <<created, inputVars, connVars, navigated, loginVars,
                   increment, sel, outVars, fnVars>>

\* main.js:396: Object.keys(mainTableData).length > 0
HasDataAlways(agg) == TRUE

HasData(agg) == Len(agg) > 0

\* main.js:396-409, 106-116: the aggregate is handed to the code that makes
\* the output directory and writes the file, or the no-data condition is
\* reported.  A fault of the write is printed and nothing else.
Persist ==
    /\ pc = "persist"
    /\ IF HasData(mainTableData)
       THEN /\ persisted' = persisted + 1
            /\ noData' = noData
            /\ \E mkdirOk \in BOOLEAN :
                   IF mkdirOk
                   THEN Continue("finally")
                   ELSE /\ CallQuit
                        /\ ProcessExit(1)
                        /\ fatal' = "mkdir"
       ELSE /\ noData' = TRUE
            /\ persisted' = persisted
            /\ Continue("finally")
    /\ UNCHANGED <<created, inputVars, connVars, navigated, loginVars,
                   reportVars, fnVars>>

\* main.js:412-414, and the end of the process
Finally ==
    /\ pc = "finally"
    /\ \E completed \in QuitOutcomes :
           IF completed
           THEN AwaitQuit /\ ProcessExit(0)
           ELSE QuitCalled(1, FALSE) /\ Unhandled
    /\ UNCHANGED <<fatal, created, inputVars, connVars, navigated, loginVars,
                   reportVars, outVars, fnVars>>

Next ==
    \/ CreateSession
    \/ CheckBaseUrl
    \/ ProbeAttempt
    \/ NavigateAuth
    \/ LoginEnterCredentials
    \/ LoginSubmit
    \/ LoginVerify
    \/ NavigateReport
    \/ AttendanceOffset
    \/ ScrapeOther
    \/ Persist
    \/ Finally

Spec == Init /\ [][Next]_vars

(***************************************************************************)
(* The end-to-end scenario: the run with every environment value set, on a *)
(* portal whose attendance page has all its controls and the fixed table.  *)
(***************************************************************************)
InitE2E ==
    /\ InitRun
    /\ InitFn
    /\ env = [baseUrl |-> TRUE, username |-> TRUE, password |-> TRUE]
    /\ currentMonth \in 1..12
    /\ currentYear \in Years
    /\ dom = "e2e"
    /\ quitCanFault = FALSE

SpecE2E == InitE2E /\ [][Next]_vars

(***************************************************************************)
(* The run with a session whose quit can fault.                            *)
(***************************************************************************)
InitQuit ==
    /\ InitRun
    /\ InitFn
    /\ env \in [baseUrl : BOOLEAN, username : BOOLEAN, password : BOOLEAN]
    /\ currentMonth \in 1..12
    /\ currentYear \in Years
    /\ dom = "any"
    /\ quitCanFault = TRUE

SpecQuit == InitQuit /\ [][Next]_vars

(***************************************************************************)
(* The header normalization on its own: a text is given and normalized     *)
(* twice in a row.                                                         *)
(***************************************************************************)
NormAlphabet == {SP, NL, TAB, US, "a", "A"}

InitIdle ==
    /\ InitRun
    /\ env = [baseUrl |-> TRUE, username |-> TRUE, password |-> TRUE]
    /\ currentMonth = 1
    /\ currentYear = BaseYear
    /\ dom = "any"
    /\ quitCanFault = FALSE

InitNorm ==
    /\ InitIdle
    /\ normIn \in SeqsUpTo(NormAlphabet, MaxLen)
    /\ normOut = <<>>
    /\ ParserIdle
    /\ NavIdle
    /\ LocIdle

NormalizeStep ==
    /\ Len(normOut) < 2
    /\ normOut' = Append(normOut,
                         NormalizeHeader(IF normOut = <<>> THEN normIn
                                         ELSE normOut[Len(normOut)]))
    /\ UNCHANGED <<runVars, normIn, parserVars, navVars, locVars>>

NextNorm == NormalizeStep

SpecNorm == InitNorm /\ [][NextNorm]_vars

(***************************************************************************)
(* The table parser on its own: a page is given and parsed once.           *)
(***************************************************************************)
InitParser ==
    /\ InitIdle
    /\ NormIdle
    /\ NavIdle
    /\ LocIdle
    /\ page \in Pages
    /\ parsed = NotParsed

Scrape ==
    /\ ~parsed.done
    /\ LET r == ScrapeTableData(page)
       IN  parsed' = [done |-> TRUE, threw |-> r.threw, data |-> r.data]
    /\ UNCHANGED <<runVars, normVars, page, navVars, locVars>>

NextParser == Scrape

SpecParser == InitParser /\ [][NextParser]_vars

(***************************************************************************)
(* The navigator's path resolution on its own: a logical name is given and *)
(* resolved once.  The names are the five the program uses, the report     *)
(* names in other letter cases and near misses of them, each with up to    *)
(* NavPadLen characters before and after.                                  *)
(***************************************************************************)
NavPadLen == 1

NavStems ==
    {U_AUTH, U_ATTENDANCE, U_OVERTIME, U_OFFICIALBUSINESS, U_LEAVE,
     <<"L", "e", "a", "v", "e">>,
     <<"L", "E", "A", "V", "E">>,
     <<"O", "v", "e", "r", "T", "i", "m", "e">>,
     <<"O", "f", "f", "i", "c", "i", "a", "l",
       "B", "u", "s", "i", "n", "e", "s", "s">>,
     <<"l", "e", "a", "v">>,
     <<"o", "v", "e", "r", SP, "t", "i", "m", "e">>,
     <<"o", "f", "f", "i", "c", "i", "a", "l">>,
     <<>>}

NavNames ==
    {pre \o stem \o post :
        pre \in SeqsUpTo({"x", "/"}, NavPadLen),
        stem \in NavStems,
        post \in SeqsUpTo({"x", "/"}, NavPadLen)}

InitNav ==
    /\ InitIdle
    /\ NormIdle
    /\ ParserIdle
    /\ LocIdle
    /\ navIn \in NavNames
    /\ navOut = NotResolved

Resolve ==
    /\ ~navOut.done
    /\ navOut' = [done |-> TRUE, path |-> FullUrl(navIn)]
    /\ UNCHANGED <<runVars, normVars, parserVars, navIn, locVars>>

NextNav == Resolve

SpecNav == InitNav /\ [][NextNav]_vars

(***************************************************************************)
(* The element locator on its own: one call, with or without a locator     *)
(* value, for one element or for a list, and each answer the driver can    *)
(* give to the wait on the document and to findElement on the parent.      *)
(***************************************************************************)
MaxElems == 2    \* most elements a lookup matches

Elems == {"e1", "e2"}

\* StaleElementReferenceError stands for any fault other than the two the
\* catch names.
LookupFaults == {"TimeoutError", "NoSuchElementError",
                 "StaleElementReferenceError"}

Waited ==
    {Answer(es) : es \in SeqsUpTo(Elems, MaxElems) \ {<<>>}}
    \cup {Fault(name) : name \in LookupFaults}

Found ==
    {Answer(<<e>>) : e \in Elems} \cup {Fault(name) : name \in LookupFaults}

InitLocator ==
    /\ InitIdle
    /\ NormIdle
    /\ ParserIdle
    /\ NavIdle
    /\ locIn \in [hasLocator : BOOLEAN, multiple : BOOLEAN,
                   waited : Waited, found : Found]
    /\ locOut = NotLocated

Locate ==
    /\ ~locOut.done
    /\ locOut' = [done |-> TRUE,
                  result |-> ProcessElementOn(locIn.hasLocator, locIn.multiple,
                                              locIn.waited, locIn.found)]
    /\ UNCHANGED <<runVars, normVars, parserVars, navVars, locIn>>

NextLocator == Locate

SpecLocator == InitLocator /\ [][NextLocator]_vars

(***************************************************************************)
(* The claims.                                                             *)
(***************************************************************************)
Exited == pc = "exited"
Is2xx(o) == o.status \in 200..299
Got200 == \E i \in 1..Len(probeLog) : probeLog[i].status = 200
Got2xx == \E i \in 1..Len(probeLog) : Is2xx(probeLog[i])
AggregateKeys == {mainTableData[i].k : i \in 1..Len(mainTableData)}

\* C1: on every path by which the process exits after the browser session
\* was created, driver.quit() has been called and has completed before the
\* exit.  (Stated as claimed; the exit taken when the output directory
\* cannot be created calls quit without awaiting it.)
C1_QuitCompletedBeforeExit ==
    (Exited /\ created) => (quitCalls >= 1 /\ quitDone = quitCalls)

C3_ExpectedMonth(month, inc) ==
    IF month + inc = 0 THEN 12 ELSE IF month + inc = 13 THEN 1 ELSE month + inc

C3_ExpectedYear(month, year, inc) ==
    IF month + inc = 0 THEN year - 1
    ELSE IF month + inc = 13 THEN year + 1
    ELSE year

C3_MonthRollover ==
    sel # NoSelection =>
        /\ sel.month = C3_ExpectedMonth(currentMonth, sel.increment)
        /\ sel.month \in 1..12
        /\ sel.name = months[C3_ExpectedMonth(currentMonth, sel.increment)]
        /\ sel.year = C3_ExpectedYear(currentMonth, currentYear, sel.increment)

\* C4: the parser returns one record per body row, in order, and the value
\* under the j-th header key of the i-th record is the trimmed text of the
\* j-th cell of the i-th row itself, the empty string when the row has no
\* j-th cell.  (Stated as claimed, for a page with everything located, no
\* fault and at least one cell in every row; the cells the code reads are
\* those of the whole document.)
C4_LastOfKey(headers, j) ==
    \A j2 \in (j + 1)..Len(headers) : headers[j2] # headers[j]

C4_Premise ==
    /\ parsed.done
    /\ ~parsed.threw
    /\ page.located = "all"
    /\ page.fault = "none"
    /\ page.ths # <<>>
    /\ \A r \in 1..Len(page.rowLens) : page.rowLens[r] >= 1

C4_CellsOfOwnRow ==
    C4_Premise =>
        LET headers == [j \in 1..Len(page.ths) |-> NormalizeHeader(page.ths[j])]
        IN  /\ Len(parsed.data) = Len(page.rowLens)
            /\ \A i \in 1..Len(parsed.data), j \in 1..Len(headers) :
                   (~Excluded(headers[j]) /\ C4_LastOfKey(headers, j)) =>
                       /\ HasKey(parsed.data[i], headers[j])
                       /\ Get(parsed.data[i], headers[j]) =
                              IF j <= page.rowLens[i]
                              THEN Trim(CellText(i, j))
                              ELSE <<>>

\* C5: a report is a key of the aggregate only if the parser returned at
\* least one record for it, and every key maps to a non-empty list (the
\* records the parser returned for that report).
C5_KeysOnlyWithRecords ==
    /\ \A e \in 1..Len(mainTableData) : Len(mainTableData[e].v) > 0
    /\ \A i \in 1..Len(urlList) :
           HasKey(mainTableData, urlList[i]) =>
               /\ yielded[i] > 0
               /\ Len(Get(mainTableData, urlList[i])) = yielded[i]

C5_Witness ==
    /\ Exited
    /\ exitCode = 0
    /\ urlIdx = Len(urlList)
    /\ steps = <<"scrape">>
    /\ yielded[1] = 0
    /\ yielded[3] = 0
    /\ AggregateKeys = {U_OVERTIME, U_LEAVE}

\* C6: no key of a record the parser returns contains "action" or
\* "attachment", whatever the number and the places of such columns.
C6_NoExcludedKey ==
    parsed.done =>
        \A i \in 1..Len(parsed.data) :
            \A k \in Keys(parsed.data[i]) :
                ~Includes(k, ACTION_KW) /\ ~Includes(k, ATTACHMENT_KW)

C6_Witness ==
    /\ parsed.done
    /\ page.ths = <<H_ATTACHMENT, H_ACTION>>
    /\ Len(parsed.data) = 2
    /\ parsed.data[1] = <<>>

\* C7: every record of a report's list in the aggregate has the same key
\* set, the non-excluded normalized headers of the report's table, also the
\* records of short rows and the attendance records of different offsets.
C7_ReportKeys(url) ==
    LET keys == {NormalizeHeader(ReportThs(url)[j]) : j \in 1..Len(ReportThs(url))}
    IN  {k \in keys : ~Includes(k, ACTION_KW) /\ ~Includes(k, ATTACHMENT_KW)}

C7_SameKeySet ==
    \A e \in 1..Len(mainTableData) :
        LET keys == C7_ReportKeys(mainTableData[e].k)
        IN  \A i \in 1..Len(mainTableData[e].v) :
                Keys(mainTableData[e].v[i]) = keys

C7_Witness ==
    /\ HasKey(mainTableData, U_ATTENDANCE)
    /\ Len(tableData) = 3
    /\ LET recs == Get(mainTableData, U_ATTENDANCE)
       IN  /\ Len(recs) >= 6
           /\ \E i \in 1..Len(recs) : Get(recs[i], NormalizeHeader(H_TIME_IN)) = <<>>

\* C8: the header normalization is total and idempotent: every text has a
\* normal form, and normalizing the normal form changes nothing.
C8_NormalizeIdempotent ==
    /\ normOut = <<>> => ENABLED NormalizeStep
    /\ Len(normOut) >= 1 => Len(normOut[1]) <= Len(normIn)
    /\ Len(normOut) = 2 => normOut[2] = normOut[1]

C8_Witness ==
    /\ Len(normOut) = 2
    /\ normIn = <<SP, "A", NL, "a">>
    /\ normOut[1] = <<"a", US, "a">>

\* C9 as claimed: at most 3 attempts, none after one that received an HTTP
\* success status (200..299), and success reported exactly when some
\* attempt received an HTTP success status.
C9_AsClaimed ==
    /\ Len(probeLog) <= 3
    /\ \A i \in 1..(Len(probeLog) - 1) : ~Is2xx(probeLog[i])
    /\ (pc # "checkInternet" /\ probeLog # <<>>) => (connected <=> Got2xx)

\* C9, amended: at most 3 attempts, none after one that received status
\* 200, a 1-second wait after every failed attempt but the last, and
\* success reported exactly when some attempt received status 200; without
\* it the process exits.
C9_ProbeBounds ==
    /\ Len(probeLog) <= 3
    /\ \A i \in 1..(Len(probeLog) - 1) : probeLog[i].status # 200
    /\ pc = "checkInternet" => (backoffs = Len(probeLog) /\ ~connected)
    /\ (pc # "checkInternet" /\ probeLog # <<>>) =>
           /\ backoffs = Len(probeLog) - 1
           /\ connected <=> Got200
           /\ ~connected => (Exited /\ Len(probeLog) = 3)
    /\ probeLog = <<>> => (backoffs = 0 /\ ~connected)

C9_Witness ==
    /\ connected
    /\ probeLog = <<Response(204), Rejection("ECONNABORTED"), Response(200)>>
    /\ backoffs = 2

C11_SameLetter(c, d) ==
    \/ c = d
    \/ \E i \in 1..Len(UpperCase) : {c, d} = {UpperCase[i], LowerCase[i]}

C11_Holds(name, keyword) ==
    \E i \in 1..Len(name) :
        /\ i + Len(keyword) - 1 <= Len(name)
        /\ \A j \in 1..Len(keyword) : C11_SameLetter(name[i + j - 1], keyword[j])

C11_IsFiling(name) ==
    \/ C11_Holds(name, <<"o", "v", "e", "r", "t", "i", "m", "e">>)
    \/ C11_Holds(name, <<"o", "f", "f", "i", "c", "i", "a", "l",
                         "b", "u", "s", "i", "n", "e", "s", "s">>)
    \/ C11_Holds(name, <<"l", "e", "a", "v", "e">>)

C11_FilingExactlyForKeywords ==
    navOut.done =>
        /\ navOut.path = IF C11_IsFiling(navIn)
                         THEN <<"f", "i", "l", "i", "n", "g", "/">> \o navIn
                         ELSE navIn
        /\ navIn \in {U_AUTH, U_ATTENDANCE} => navOut.path = navIn
        /\ navIn = U_LEAVE =>
               navOut.path = <<"f", "i", "l", "i", "n", "g", "/",
                               "l", "e", "a", "v", "e">>
        /\ navIn = U_OVERTIME =>
               navOut.path = <<"f", "i", "l", "i", "n", "g", "/",
                               "o", "v", "e", "r", "t", "i", "m", "e">>
        /\ navIn = U_OFFICIALBUSINESS =>
               navOut.path = <<"f", "i", "l", "i", "n", "g", "/",
                               "o", "f", "f", "i", "c", "i", "a", "l",
                               "b", "u", "s", "i", "n", "e", "s", "s">>

C11_Witness ==
    /\ navOut.done
    /\ navIn = <<"x", "O", "v", "e", "r", "T", "i", "m", "e", "/">>
    /\ navOut.path = FILING \o navIn

\* C12: once a fatal condition has occurred (base URL missing, connectivity
\* exhausted, a navigation fault on the authentication page or on a report
\* page, a login failure) the run has ended with exit code 1 after one
\* completed quit, and the aggregate was not handed to persistence and no
\* no-data condition was reported; nothing was navigated to, probed or
\* logged in that the condition comes before.
C12_FatalConditions == {"baseUrl", "connectivity", "navigation", "login"}

C13_AllProcessed ==
    /\ pc \in {"finally", "exited"}
    /\ urlIdx = Len(urlList)
    /\ reportFault # "threw"
    /\ fatal \in {"none", "mkdir"}

C13_HandedOverIffEntries ==
    /\ persisted \in {0, 1}
    /\ C13_AllProcessed =>
           /\ persisted = 1 <=> Len(mainTableData) > 0
           /\ noData <=> Len(mainTableData) = 0
           /\ noData => fatal = "none" /\ (Exited => exitCode = 0 /\ quitDone = 1)
    /\ ~C13_AllProcessed => persisted = 0 /\ ~noData

C13_Witness ==
    /\ Exited /\ exitCode = 0
    /\ Len(navigated) = 5
    /\ noData /\ persisted = 0
    /\ quitCalls = 1 /\ quitDone = 1

\* C14: in the end-to-end scenario (host reachable, login verified, the
\* attendance page with its controls and the table Date, Time In, Action
\* with the one row 2024-01-05, 08:00, <button>), once the attendance report
\* is done the aggregate has an attendance list, the list is not empty, and
\* every record of it is {date: "2024-01-05", time_in: "08:00"} with no
\* action key.
C14_Expected ==
    <<[k |-> <<"d", "a", "t", "e">>,
       v |-> <<"2", "0", "2", "4", "-", "0", "1", "-", "0", "5">>],
      [k |-> <<"t", "i", "m", "e", "_", "i", "n">>,
       v |-> <<"0", "8", ":", "0", "0">>]>>

C14_Scenario ==
    /\ dom = "e2e"
    /\ connected
    /\ loginState = "Verified"
    /\ urlIdx >= 2

C14_OnlyTheRecord ==
    C14_Scenario =>
        /\ HasKey(mainTableData, U_ATTENDANCE)
        /\ LET list == Get(mainTableData, U_ATTENDANCE)
           IN  /\ Len(list) >= 1
               /\ \A i \in 1..Len(list) :
                      /\ list[i] = C14_Expected
                      /\ ~HasKey(list[i], ACTION_KW)

\* C14 as claimed: the attendance list holds the record once.
C14_AsClaimed ==
    C14_Scenario =>
        /\ HasKey(mainTableData, U_ATTENDANCE)
        /\ Get(mainTableData, U_ATTENDANCE) = <<C14_Expected>>

C14_Witness ==
    /\ C14_Scenario
    /\ Exited /\ exitCode = 0
    /\ persisted = 1
    /\ Len(Get(mainTableData, U_ATTENDANCE)) = 3

\* C15: the events of a run come in a fixed order: nothing is navigated to
\* before the connectivity check succeeded; login starts after the
\* authentication page was navigated to; a report page is navigated to only
\* with login Verified; the pages come in the order Auth, attendance,
\* overtime, officialbusiness, leave; the attendance offsets come in the
\* order -1, 0, +1; and the keys of the aggregate are in the order of the
\* reports, each stored when its report was processed.
C15_Pages ==
    <<(<<"A", "u", "t", "h">>),
      (<<"a", "t", "t", "e", "n", "d", "a", "n", "c", "e">>),
      (<<"f", "i", "l", "i", "n", "g", "/",
         "o", "v", "e", "r", "t", "i", "m", "e">>),
      (<<"f", "i", "l", "i", "n", "g", "/", "o", "f", "f", "i", "c", "i", "a", "l",
         "b", "u", "s", "i", "n", "e", "s", "s">>),
      (<<"f", "i", "l", "i", "n", "g", "/", "l", "e", "a", "v", "e">>)>>

C15_Reports ==
    <<(<<"a", "t", "t", "e", "n", "d", "a", "n", "c", "e">>),
      (<<"o", "v", "e", "r", "t", "i", "m", "e">>),
      (<<"o", "f", "f", "i", "c", "i", "a", "l",
         "b", "u", "s", "i", "n", "e", "s", "s">>),
      (<<"l", "e", "a", "v", "e">>)>>

C15_Position(k) == CHOOSE i \in 1..Len(C15_Reports) : C15_Reports[i] = k

C15_EventsInOrder ==
    /\ navigated # <<>> => connected /\ Got200
    /\ Len(navigated) <= Len(C15_Pages)
    /\ \A i \in 1..Len(navigated) : navigated[i] = C15_Pages[i]
    /\ (loginRuns > 0 \/ loginLog # <<>> \/ loginState # "NotStarted") =>
           Len(navigated) >= 1
    /\ Len(navigated) >= 2 => loginState = "Verified"
    /\ loginState # "Verified" =>
           urlIdx = 0 /\ steps = <<>> /\ sel = NoSelection /\ mainTableData = <<>>
    /\ urlIdx >= 1 =>
           Len(navigated) = IF pc = "navigateReport" THEN urlIdx ELSE urlIdx + 1
    /\ pc = "attendance" =>
           /\ urlIdx = 1
           /\ increment \in -1..1
           /\ increment = -1 => sel = NoSelection
           /\ increment > -1 => sel.increment = increment - 1
    /\ urlIdx >= 2 => sel.increment = 1
    /\ \A i \in 1..Len(mainTableData) :
           /\ mainTableData[i].k \in {C15_Reports[j] : j \in 1..Len(C15_Reports)}
           /\ C15_Position(mainTableData[i].k) <= urlIdx
           /\ \A j \in 1..Len(mainTableData) :
                  i < j => C15_Position(mainTableData[i].k)
                               < C15_Position(mainTableData[j].k)

C15_Witness ==
    /\ Exited /\ exitCode = 0
    /\ Len(navigated) = 5
    /\ Len(mainTableData) = 4
    /\ sel.increment = 1

\* C16: a local failure while processing a report that the code prints and
\* passes over (an element not found or not located in time, a click fault,
\* a missing month/year control, table, header or body not located, an empty
\* parse) does not end the run: the run goes on, it ends only by a
\* navigation fault of a later page or after all four reports were
\* navigated to, and then the records gathered are in the aggregate that is
\* handed to persistence.  A fault while reading a header or cell text is
\* not of this kind: it reaches the catch of main, after which nothing is
\* navigated to or handed to persistence and the run ends with the teardown
\* and exit code 0.
C16_RunWentOn ==
    /\ ~Exited => pc \in {"attendance", "navigateReport", "scrape", "persist",
                          "finally"}
    /\ fatal \in {"none", "navigation", "mkdir"}
    /\ (pc \in {"persist", "finally", "exited"} /\ fatal # "navigation") =>
           /\ Len(navigated) = 5
           /\ urlIdx = Len(urlList)
           /\ \A i \in 1..Len(urlList) :
                  yielded[i] > 0 <=> HasKey(mainTableData, urlList[i])
    /\ (pc \in {"finally", "exited"} /\ fatal # "navigation") =>
           (persisted = 1 <=> Len(mainTableData) > 0)

C16_RecoverableGoesOn ==
    /\ reportFault = "recovered" => C16_RunWentOn
    /\ reportFault = "threw" =>
           /\ pc \in {"finally", "exited"}
           /\ fatal = "none"
           /\ persisted = 0 /\ ~noData
           /\ Len(navigated) = urlIdx + 1
           /\ Exited => exitCode = 0 /\ quitCalls = 1 /\ quitDone = 1

\* C16 as claimed: a fault while reading a header or cell text is passed
\* over like the other local failures.
C16_AsClaimed == reportFault \in {"recovered", "threw"} => C16_RunWentOn

C16_Witness ==
    /\ reportFault = "recovered"
    /\ Exited /\ exitCode = 0
    /\ persisted = 1
    /\ yielded[1] = 0
    /\ ~HasKey(mainTableData, U_ATTENDANCE)
    /\ HasKey(mainTableData, U_LEAVE)

\* C17: the table parser is called once for each report other than
\* attendance, as the first thing after its page was navigated to, and at
\* most once in an attendance offset, and then only after the month option
\* was clicked, the year field cleared and filled and the Search control
\* clicked; an offset in which a control is absent or a step fails adds no
\* records, and the offset after it is still attempted.
C17_BeforeParse == <<"month.click", "option.click", "year.clear",
                     "year.sendKeys", "search.click", "sleep">>

C17_InAttendance ==
    \/ pc = "attendance"
    \/ urlIdx = 1 /\ pc \in {"finally", "exited"}
    \/ urlIdx = 2 /\ pc = "navigateReport"

C17_ParserCalls ==
    /\ \A i \in 1..Len(steps) : steps[i] = "scrape" => i = Len(steps)
    /\ C17_InAttendance =>
           \/ steps = Append(C17_BeforeParse, "scrape")
           \/ \E n \in 0..Len(C17_BeforeParse) : steps = SubSeq(C17_BeforeParse, 1, n)
    /\ pc = "scrape" =>
           /\ urlIdx \in 2..4
           /\ steps = <<>>
           /\ Len(navigated) = urlIdx + 1
    /\ (urlIdx >= 2 /\ pc \notin {"navigateReport", "scrape"}
           /\ fatal # "navigation") => steps = <<"scrape">>
    /\ (urlIdx >= 3 /\ pc = "navigateReport") => steps = <<"scrape">>

C17_OffsetStep ==
    pc = "attendance" =>
        /\ pc' \in {"attendance", "navigateReport", "finally"}
        /\ sel'.increment = increment
        /\ (\A i \in 1..Len(steps') : steps'[i] # "scrape") =>
               /\ tableData' = tableData
               /\ yielded' = yielded
               /\ increment' = increment + 1
               /\ pc' = IF increment < 1 THEN "attendance" ELSE "navigateReport"
        /\ Len(tableData') <= Len(tableData) + 1

C17_ParserOncePerStep == []C17_ParserCalls /\ [][C17_OffsetStep]_vars

C17_Witness ==
    /\ pc = "attendance"
    /\ increment = 1
    /\ steps = <<"month.click", "option.click", "year.clear", "year.sendKeys">>
    /\ Len(tableData) = 1
    /\ yielded[1] > 0

\* C18: the login goes through its steps in order: the form is located
\* first; username, then password, is located in the form, cleared and
\* filled, each only with its environment value set; the form is submitted
\* only with both fields filled; the post-login marker is probed only after
\* the submission; and the login state changes only from one state to the
\* next (or to Failed), so Verified is not reached by skipping a state.
C18_Entering ==
    <<(<<"form">>),
      (<<"input", "username">>), (<<"clear", "username">>),
      (<<"sendKeys", "username">>),
      (<<"input", "password">>), (<<"clear", "password">>),
      (<<"sendKeys", "password">>)>>

C18_Submissions == {<<"click">>, <<"submit">>, <<"submitFault">>}

C18_Order ==
    /\ \A i \in 1..Len(loginLog) :
           /\ i <= Len(C18_Entering) => loginLog[i] = C18_Entering[i]
           /\ loginLog[i] = <<"input", "username">> => env.username
           /\ loginLog[i] = <<"input", "password">> => env.password
           /\ loginLog[i] \in C18_Submissions \cup {<<"clickFault">>} =>
                  i > Len(C18_Entering)
           /\ loginLog[i] = <<"marker">> =>
                  /\ i = Len(loginLog)
                  /\ i > Len(C18_Entering) + 1
                  /\ loginLog[i - 1] \in {<<"click">>, <<"submit">>}
    /\ loginState = "NotStarted" => loginLog = <<>>
    /\ loginState = "CredentialsEntered" =>
           pc = "loginSubmit" /\ loginLog = C18_Entering
    /\ loginState = "Submitted" =>
           /\ pc = "loginVerify"
           /\ Len(loginLog) > Len(C18_Entering)
           /\ loginLog[Len(loginLog)] \in {<<"click">>, <<"submit">>}
    /\ loginState = "Verified" =>
           /\ Len(loginLog) > Len(C18_Entering) + 1
           /\ loginLog[Len(loginLog)] = <<"marker">>
           /\ env.username /\ env.password

C18_Transition ==
    loginState' # loginState =>
        \/ loginState' = "Failed"
        \/ <<loginState, loginState'>> \in
               {<<"NotStarted", "CredentialsEntered">>,
                <<"CredentialsEntered", "Submitted">>,
                <<"Submitted", "Verified">>}

C18_LoginInOrder == []C18_Order /\ [][C18_Transition]_vars

C18_Witness ==
    /\ loginState = "Verified"
    /\ loginLog = C18_Entering \o <<(<<"click">>), (<<"marker">>)>>

\* C19: the credentials are submitted by one mechanism only: after a click
\* of the submit button that succeeded the form's own submit is not called;
\* when the button was not found or its click faulted the form's own submit
\* is called once; and a fault of that submit makes the login fail.
C19_Count(e) == Cardinality({i \in 1..Len(loginLog) : loginLog[i] = e})

C19_OneMechanism ==
    /\ C19_Count(<<"click">>) + C19_Count(<<"clickFault">>) <= 1
    /\ C19_Count(<<"submit">>) + C19_Count(<<"submitFault">>) <= 1
    /\ C19_Count(<<"click">>) = 1 =>
           C19_Count(<<"submit">>) + C19_Count(<<"submitFault">>) = 0
    /\ \A i \in 1..Len(loginLog) :
           loginLog[i] = <<"clickFault">> =>
               /\ i < Len(loginLog)
               /\ loginLog[i + 1] \in {<<"submit">>, <<"submitFault">>}
    /\ (loginState \in {"Submitted", "Verified"}
           \/ (loginState = "Failed" /\ Len(loginLog) > Len(C18_Entering))) =>
           /\ C19_Count(<<"click">>) + C19_Count(<<"submit">>)
                  + C19_Count(<<"submitFault">>) = 1
           /\ C19_Count(<<"click">>) = 0 =>
                  C19_Count(<<"submit">>) + C19_Count(<<"submitFault">>) = 1
    /\ loginState \in {"Submitted", "Verified"} =>
           C19_Count(<<"submitFault">>) = 0
    /\ C19_Count(<<"submitFault">>) = 1 =>
           /\ loginState = "Failed"
           /\ fatal = "login"
           /\ loginLog[Len(loginLog)] = <<"submitFault">>

C19_Witness ==
    /\ loginState = "Verified"
    /\ loginLog = C18_Entering
                     \o <<(<<"clickFault">>), (<<"submit">>), (<<"marker">>)>>

\* C20: the element locator never raises to its caller: without a locator
\* value, on a timeout, on a not-found and on any other fault of the lookup
\* it returns null, and it returns an element or a list of elements only
\* when the lookup succeeded, and then what the lookup gave.
C20_LookupSucceeded ==
    /\ locIn.hasLocator
    /\ locIn.waited.error = "none"
    /\ locIn.multiple \/ locIn.found.error = "none"

C20_NeverRaises ==
    locOut.done =>
        /\ ~locOut.result.raised
        /\ locOut.result.found <=> C20_LookupSucceeded
        /\ ~locOut.result.found => locOut.result.elems = <<>>
        /\ locOut.result.found =>
               locOut.result.elems = IF locIn.multiple
                                     THEN locIn.waited.elems
                                     ELSE locIn.found.elems

C20_Witness ==
    /\ locOut.done
    /\ locIn.hasLocator
    /\ ~locIn.multiple
    /\ locIn.waited.error = "none"
    /\ locIn.found.error = "StaleElementReferenceError"
    /\ ~locOut.result.found
    /\ ~locOut.result.raised

\* C21: in any run driver.quit() is called at most once; once it has been
\* called nothing but the end of the run follows, so no navigation, lookup,
\* click, typing or sleep is issued on the session after it; and a fatal
\* exit taken inside main ends the process there, without the quit of
\* main's finally block.  (Stated as claimed; when the quit of a fatal exit
\* faults, the exit is not taken and quit is called again.)
C21_QuitAtMostOnce ==
    /\ quitCalls <= 1
    /\ quitCalls >= 1 => pc \in {"finally", "exited"}
    /\ fatal # "none" => pc = "exited"
====
